---- MODULE Spec2Model ----
(***************************************************************************)
(* Model of the FLR tracker: its analysis core, its caching handlers and    *)
(* the loading of its page component:                                      *)
(*   - LPPLModel.optimize, the grid search of lib/lppl-model.js            *)
(*     (src/unnamed/part_002) and its inline copy in the combined          *)
(*     /api/analyze handler (src/unnamed/part_001, lines 311-417);         *)
(*   - StatisticalEngine / analyzeCSD of src/lib/statistical-engine.js;    *)
(*   - the /api/analyze and /api/market handlers (config, cache);          *)
(*   - loadData of src/src/FLRTrackerLive.jsx.                             *)
(*                                                                         *)
(* Numbers.  R^2 and confidence are carried in thousandths (0.75 = 750),   *)
(* the exponent m in hundredths (0.15 = 15), the phase phi in units of     *)
(* pi/4.  The least-squares coefficients A, B, C are exact rationals       *)
(* [n |-> numerator, d |-> denominator > 0].  The normal equations X'X,    *)
(* X'y and the R^2 of a grid point come out of Math.pow, Math.cos and      *)
(* Math.log of the prices; the model draws them at every grid point from   *)
(* the sets Designs and R2Values, so every sequence of regression          *)
(* outcomes over the grid is explored.                                     *)
(*                                                                         *)
(* Specifications.                                                         *)
(*   Spec         one call of optimize, any regression outcomes            *)
(*   SpecCSD      one call of analyzeCSD                                   *)
(*   SpecTwice    optimize or analyzeCSD called twice on the same input    *)
(*   SpecRolling  rollingAR1 and rollingVariance on residuals of their own *)
(*   SpecTau      kendallTau on AR(1) series of its own                    *)
(*   SpecStatus   the status chain on every AR(1) value in [-1, 1]         *)
(*   SpecTies     one call of optimize on prices whose R^2 values repeat   *)
(*   SpecConfig   a handler building its config from a query               *)
(*   SpecHandler  requests to a caching handler, interleaved, over time    *)
(*   SpecUI       the component's calls of loadData and their responses    *)
(* The variables of the components a specification does not run stay at   *)
(* their idle values.                                                      *)
(***************************************************************************)
EXTENDS Integers, Sequences, FiniteSets, TLC

VARIABLES
  impl,        \* which optimize runs: "lib" (part_002) or "inline" (part_001)
  pricesLen,   \* prices.length of the argument of optimize
  pc,          \* position in optimize: "call", "grid", "finish", "done"
  off,         \* index in prices of the first price that is log-transformed
  n,           \* the code's n (lib) / rn (inline): length of the fitted series
  ti, mi, oi, pi, \* 1-based positions of the four nested for-of loops
  bestFit,     \* optimize's bestFit (Null or a fit record)
  bestR2,      \* optimize's bestR2
  result,      \* the object optimize returns (Null while it runs)
  gridEvals,   \* history: number of grid points whose loop body has run
  lastDet,     \* history: determinant of X'X at the grid point evaluated last
  seenBestR2,  \* history: largest R^2 computed so far (line 100)
  solveCalls,  \* history: number of calls of linearRegression (line 83)
  firstMaxAt,  \* history: the pass that first computed the largest viable R^2
  maxShared,   \* history: a later pass computed that largest viable R^2 again
  csdPrices,   \* analyzeCSD: the prices argument
  csdConfig,   \* analyzeCSD: the config argument
  csdPc,       \* analyzeCSD: "call" or "done"
  csdResult,   \* analyzeCSD: what the call produced
  series,      \* optimize called twice: which price series is the argument
  calls,       \* optimize called twice: number of calls begun
  prevResult,  \* optimize called twice: what the first call returned
  csdCalls,    \* analyzeCSD called twice: number of calls begun
  csdPrevResult, \* analyzeCSD called twice: what the first call returned
  rollResiduals, \* rollingAR1 / rollingVariance: the residuals argument
  rollWindow,  \* rollingAR1 / rollingVariance: the windowSize argument
  rollPc,      \* rollingAR1 / rollingVariance: "call" or "done"
  rollAr1,     \* what rollingAR1 returned
  rollVar,     \* what rollingVariance returned
  tauNulls,    \* kendallTau: number of null entries of ar1Series
  tauNullsAfter, \* kendallTau: number of non-null entries before the nulls
  tauValues,   \* kendallTau: the non-null entries of ar1Series, in sixteenths
  tauLookback, \* kendallTau: the lookback argument
  tauPc,       \* kendallTau: "build" (the argument is put together) or "done"
  tauResult,   \* what kendallTau returned
  statImpl,    \* status: "lib" (analyzeCSD) or "inline" (handler of part_001)
  statAr1,     \* status: currentAR1, in hundredths
  statPc,      \* status: "call" or "done"
  statResult,  \* status: the status assigned
  cfgImpl,     \* config: "caching" (part_001:22) or "combined" (part_001:421) handler
  cfgQuery,    \* config: req.query, the text of each of the three parameters
  cfgPc,       \* config: "call" or "done"
  cfgConfig,   \* config: the config object the handler built
  hImpl,       \* handler: "analyze" (part_001:22) or "market" (market.js:24)
  hasFredKey,  \* handler: process.env.FRED_API_KEY is set
  hClock,      \* handler: Date.now(), in minutes
  hCache,      \* handler: the module's cache object
  hReqs,       \* handler: the requests, each idle, awaiting its fetches or done
  uiConfig,    \* component: the config state
  uiData,      \* component: the data state (which load's result, for which config)
  uiLoading,   \* component: the loading state
  uiError,     \* component: the error state
  uiLoads      \* component: the calls of loadData, in the order they started

lpplVars == <<impl, pricesLen, pc, off, n, ti, mi, oi, pi, bestFit, bestR2,
              result, gridEvals, lastDet, seenBestR2, solveCalls, firstMaxAt,
              maxShared, series, calls, prevResult>>
csdVars == <<csdPrices, csdConfig, csdPc, csdResult, csdCalls, csdPrevResult>>
rollVars == <<rollResiduals, rollWindow, rollPc, rollAr1, rollVar>>
tauVars == <<tauNulls, tauNullsAfter, tauValues, tauLookback, tauPc, tauResult>>
statVars == <<statImpl, statAr1, statPc, statResult>>
fnVars == <<rollVars, tauVars, statVars>>
cfgVars == <<cfgImpl, cfgQuery, cfgPc, cfgConfig>>
handlerVars == <<hImpl, hasFredKey, hClock, hCache, hReqs>>
uiVars == <<uiConfig, uiData, uiLoading, uiError, uiLoads>>
webVars == <<cfgVars, handlerVars, uiVars>>
vars == <<lpplVars, csdVars, fnVars, webVars>>

----------------------------------------------------------------------------
(* Bounds of the model                                                     *)

\* number of leading entries of mRange / omegaRange / phiRange that are explored
MaxM == 2
MaxOmega == 2
MaxPhi == 1
\* longest price series given to analyzeCSD
MaxCsdLen == 4
\* longest residual series given to rollingAR1 and rollingVariance
MaxRollLen == 5
\* largest number of non-null entries of the series given to kendallTau
MaxTauLen == 10

----------------------------------------------------------------------------
(* Program constants                                                       *)

MinObservations == 100     \* if (n < 100) return ...
RecentWindow == 500        \* prices.slice(-500)
TcFirst == 5               \* tc = n + 5
TcLast == 200              \* tc <= n + 200
R2Threshold == 750         \* r2 > 0.75          (thousandths)
ConfidenceSpan == 200      \* (r2 - 0.75) / 0.2  (thousandths)
BubbleConfidence == 300    \* confidence > 0.3   (thousandths)
TcDaysMin == 5             \* tcDays > 5
TcDaysMax == 200           \* tcDays < 200
NegInfinity == -1000000    \* let bestR2 = -Infinity (below every R^2 of the model)
TauMinPoints == 10         \* if (recent.length < 10) return 0

Null == [isNull |-> TRUE]

Min(a, b) == IF a < b THEN a ELSE b
Max(a, b) == IF a > b THEN a ELSE b
Abs(a) == IF a < 0 THEN -a ELSE a

\* the first k entries of a list
Prefix(s, k) == SubSeq(s, 1, Min(k, Len(s)))

----------------------------------------------------------------------------
(* The grids                                                               *)

TcStep(i) == IF i = "lib" THEN 10 ELSE 15

\* for (let tc = n + 5; tc <= n + 200; tc += step) tcRange.push(tc)
\* tcRange.length and tcRange[k] (k = 1 ..) for a fitted series of length len
TcCount(i) == (TcLast - TcFirst) \div TcStep(i) + 1

\* mutant: the candidates start five days before the end of the series
TcAt_BeforeEnd(i, len, k) == len - TcFirst + (k - 1) * TcStep(i)

TcAt(i, len, k) == len + TcFirst + (k - 1) * TcStep(i)
TcRange(i, len) == [k \in 1..TcCount(i) |-> TcAt(i, len, k)]

mRangeLib == Prefix(<<15, 20, 25, 33, 40, 50, 60, 70, 80>>, MaxM)
mRangeInline == Prefix(<<20, 33, 50, 67, 80>>, MaxM)
MRange(i) == IF i = "lib" THEN mRangeLib ELSE mRangeInline

omegaRangeLib == Prefix(<<5, 6, 7, 8, 9, 10, 11, 12, 13>>, MaxOmega)
omegaRangeInline == Prefix(<<6, 8, 10, 12>>, MaxOmega)
OmegaRange(i) == IF i = "lib" THEN omegaRangeLib ELSE omegaRangeInline

phiRangeLib == Prefix(<<0, 1, 2, 3, 4, 5, 6, 7>>, MaxPhi)
phiRangeInline == Prefix(<<0, 2, 4, 6>>, MaxPhi)
PhiRange(i) == IF i = "lib" THEN phiRangeLib ELSE phiRangeInline

----------------------------------------------------------------------------
(* Linear algebra: LPPLModel.linearRegression / solve3x3 (solveOLS inline) *)

\* a rational num/den with the sign carried by the numerator
Rat(num, den) == IF den < 0 THEN [n |-> -num, d |-> -den] ELSE [n |-> num, d |-> den]
RatLt0(q) == q.n < 0
RatGeq0(q) == q.n >= 0
\* Math.abs(c) > Math.abs(b)
RatAbsGt(c, b) == Abs(c.n) * b.d > Abs(b.n) * c.d

Det3(A) ==
    A[1][1] * (A[2][2] * A[3][3] - A[2][3] * A[3][2])
  - A[1][2] * (A[2][1] * A[3][3] - A[2][3] * A[3][1])
  + A[1][3] * (A[2][1] * A[3][2] - A[2][2] * A[3][1])

\* the adjugate of A: inv of the code is Adj3(A) * invDet
Adj3(A) ==
  << << A[2][2] * A[3][3] - A[2][3] * A[3][2],
        A[1][3] * A[3][2] - A[1][2] * A[3][3],
        A[1][2] * A[2][3] - A[1][3] * A[2][2] >>,
     << A[2][3] * A[3][1] - A[2][1] * A[3][3],
        A[1][1] * A[3][3] - A[1][3] * A[3][1],
        A[1][3] * A[2][1] - A[1][1] * A[2][3] >>,
     << A[2][1] * A[3][2] - A[2][2] * A[3][1],
        A[1][2] * A[3][1] - A[1][1] * A[3][2],
        A[1][1] * A[2][2] - A[1][2] * A[2][1] >> >>

\* mutant: the singularity test left out
IsSingular_Never(det) == FALSE

\* if (Math.abs(det) < 1e-10) return null: the entries are integers here, so
\* the determinant is one too and |det| < 1e-10 exactly when |det| < 1
IsSingular(det) == Abs(det) < 1

solve3x3(A, b) ==
  LET det == Det3(A)
      adj == Adj3(A)
  IN  IF IsSingular(det) THEN Null
      ELSE [k \in 1..3 |->
              Rat(adj[k][1] * b[1] + adj[k][2] * b[2] + adj[k][3] * b[3], det)]

\* linearRegression(X, y) / solveOLS(X, y), from the sums X'X and X'y
linearRegression(XtX, Xty) ==
  LET coefficients == solve3x3(XtX, Xty)
  IN  IF coefficients = Null THEN Null ELSE [coefficients |-> coefficients]

----------------------------------------------------------------------------
(* What a grid point's regression can come out as                          *)

SingularXtX == << <<1, 0, 0>>, <<0, 1, 1>>, <<0, 1, 1>> >>
RegularXtX == << <<2, 1, 0>>, <<1, 2, 0>>, <<0, 0, 1>> >>

\* the normal equations [X'X, X'y] of a grid point:
\*   singular;  B = 0, C = 0;  B = -1, C = 2;  B = -1, C = 1
Designs ==
  { [XtX |-> SingularXtX, Xty |-> <<1, -1, 0>>],
    [XtX |-> RegularXtX, Xty |-> <<2, 1, 0>>],
    [XtX |-> RegularXtX, Xty |-> <<5, 1, 2>>],
    [XtX |-> RegularXtX, Xty |-> <<5, 1, 1>>] }

\* the R^2 of a grid point, in thousandths
R2Values == {600, 750, 810, 950, 1000}

\* result = this.linearRegression(X, y) for each of them
Regression == [d \in Designs |-> linearRegression(d.XtX, d.Xty)]

----------------------------------------------------------------------------
(* LPPLModel.optimize                                                      *)

\* Array.prototype.slice(begin): index of the first element kept
SliceStart(len, begin) ==
  IF begin < 0 THEN Max(len + begin, 0) ELSE Min(begin, len)

\* index in prices of the first fitted price: the library fits prices itself,
\* the inline copy fits recentPrices = prices.slice(-500)
FitStart(i, len) == IF i = "lib" THEN 0 ELSE SliceStart(len, -RecentWindow)

\* mutant: the length test off by one
TooFew_OffByOne(len) == len < MinObservations - 1

\* if (n < 100) return { isBubble: false, confidence: 0, r2: 0 }
TooFew(len) == len < MinObservations

\* smallest dt = tc - t[i] over i = 0 .. len-1 (t[i] = i)
MinDt(tc, len) == tc - (len - 1)

\* lpplFunction(t, tc, ...): "A" when dt <= 0, else the LPPL formula
lpplBranch(t, tc) == IF tc - t <= 0 THEN "A" ELSE "formula"

\* mutant: the test of the oscillation amplitude left out
RejectsFit_NoAmplitudeTest(i, B, C, m, omega) ==
  \/ RatGeq0(B)
  \/ i = "lib" /\ (m < 10 \/ m > 90)
  \/ i = "lib" /\ (omega < 5 \/ omega > 15)

\* the constraints a solution must pass (lines 90-93; line 356 inline)
RejectsFit(i, B, C, m, omega) ==
  \/ RatGeq0(B)
  \/ RatAbsGt(C, B)
  \/ i = "lib" /\ (m < 10 \/ m > 90)
  \/ i = "lib" /\ (omega < 5 \/ omega > 15)

\* mutant: any viable candidate replaces the best one
AcceptsFit_NotBest(r2, best) == r2 > R2Threshold

\* mutant: the viability threshold left out
AcceptsFit_NoThreshold(r2, best) == r2 > best

\* mutant: a candidate equalling the best one replaces it
AcceptsFit_LastTie(r2, best) == r2 >= best /\ r2 > R2Threshold

\* if (r2 > bestR2 && r2 > 0.75)
AcceptsFit(r2, best) == r2 > best /\ r2 > R2Threshold

\* mutant: the upper clamp left out
Confidence_NoUpperClamp(r2) ==
  Max(0, ((r2 - R2Threshold) * 1000) \div ConfidenceSpan)

\* Math.min(1, Math.max(0, (bestFit.r2 - 0.75) / 0.2)), in thousandths
Confidence(r2) == Min(1000, Max(0, ((r2 - R2Threshold) * 1000) \div ConfidenceSpan))

\* mutant: days counted from the last observation's index
TcDays_NoPlusOne(tc, len) == tc - len

\* Math.round(bestFit.tc - n + 1): tc and n are integers
TcDays(tc, len) == tc - len + 1

\* mutant: the tests of tcDays left out
IsBubble_ConfidenceOnly(confidence, tcDays) == confidence > BubbleConfidence

\* confidence > 0.3 && tcDays > 5 && tcDays < 200
IsBubble(confidence, tcDays) ==
  confidence > BubbleConfidence /\ tcDays > TcDaysMin /\ tcDays < TcDaysMax

\* the return statements after the grid (lines 111-129)
FinalResult(fit, len) ==
  IF fit = Null \/ fit.r2 < R2Threshold
  THEN [isBubble |-> FALSE, confidence |-> 0,
        r2 |-> IF fit = Null THEN 0 ELSE fit.r2, tcDays |-> Null]
  ELSE LET confidence == Confidence(fit.r2)
           tcDays == TcDays(fit.tc, len)
       IN  [tc |-> fit.tc, A |-> fit.A, B |-> fit.B, C |-> fit.C, m |-> fit.m,
            omega |-> fit.omega, phi |-> fit.phi, r2 |-> fit.r2,
            confidence |-> confidence, tcDays |-> tcDays,
            isBubble |-> IsBubble(confidence, tcDays)]

\* the insufficient-data return (line 45)
Sentinel == [isBubble |-> FALSE, confidence |-> 0, r2 |-> 0]

\* number of grid points of the four nested loops
GridSize(i) ==
  TcCount(i) * Len(MRange(i)) * Len(OmegaRange(i)) * Len(PhiRange(i))

CurTc == TcAt(impl, n, ti)
CurM == MRange(impl)[mi]
CurOmega == OmegaRange(impl)[oi]
CurPhi == PhiRange(impl)[pi]

\* mutant: bestFit and bestR2 kept from one call to the next
Start_KeepsBest ==
  /\ pc = "call"
  /\ IF TooFew(pricesLen)
     THEN /\ result' = Sentinel
          /\ pc' = "done"
          /\ UNCHANGED <<off, n, bestFit, bestR2>>
     ELSE /\ off' = FitStart(impl, pricesLen)
          /\ n' = pricesLen - FitStart(impl, pricesLen)
          /\ UNCHANGED <<bestFit, bestR2>>
          /\ pc' = "grid"
          /\ UNCHANGED result
  /\ UNCHANGED <<impl, pricesLen, ti, mi, oi, pi, gridEvals, lastDet, seenBestR2>>
  /\ UNCHANGED <<solveCalls, firstMaxAt, maxShared>>
  /\ UNCHANGED <<series, calls, prevResult>>
  /\ UNCHANGED <<csdVars, fnVars, webVars>>

\* entry of optimize up to the first grid point (lines 44-59)
Start ==
  /\ pc = "call"
  /\ IF TooFew(pricesLen)
     THEN /\ result' = Sentinel
          /\ pc' = "done"
          /\ UNCHANGED <<off, n, bestFit, bestR2>>
     ELSE /\ off' = FitStart(impl, pricesLen)
          /\ n' = pricesLen - FitStart(impl, pricesLen)
          /\ bestFit' = Null
          /\ bestR2' = NegInfinity
          /\ pc' = "grid"
          /\ UNCHANGED result
  /\ UNCHANGED <<impl, pricesLen, ti, mi, oi, pi, gridEvals, lastDet, seenBestR2>>
  /\ UNCHANGED <<solveCalls, firstMaxAt, maxShared>>
  /\ UNCHANGED <<series, calls, prevResult>>
  /\ UNCHANGED <<csdVars, fnVars, webVars>>

\* the loop variables after one more pass of the innermost body
Advance ==
  IF pi < Len(PhiRange(impl)) THEN
       /\ pi' = pi + 1 /\ UNCHANGED <<ti, mi, oi>> /\ pc' = "grid"
  ELSE IF oi < Len(OmegaRange(impl)) THEN
       /\ pi' = 1 /\ oi' = oi + 1 /\ UNCHANGED <<ti, mi>> /\ pc' = "grid"
  ELSE IF mi < Len(MRange(impl)) THEN
       /\ pi' = 1 /\ oi' = 1 /\ mi' = mi + 1 /\ UNCHANGED ti /\ pc' = "grid"
  ELSE IF ti < TcCount(impl) THEN
       /\ pi' = 1 /\ oi' = 1 /\ mi' = 1 /\ ti' = ti + 1 /\ pc' = "grid"
  ELSE /\ UNCHANGED <<ti, mi, oi, pi>> /\ pc' = "finish"

\* one pass of the innermost loop body (lines 64-105), the regression of the
\* grid point coming out as one of `designs` with an R^2 that is one of `r2s`;
\* with `record` the history of the largest viable R^2 is kept
EvaluatePass(designs, r2s, record) ==
  /\ pc = "grid"
  /\ \E design \in designs :
       LET valid == MinDt(CurTc, n) > 0
           reg == Regression[design]
           solved == valid /\ reg # Null
           A == reg.coefficients[1]
           B == reg.coefficients[2]
           C == reg.coefficients[3]
       IN  /\ lastDet' = IF valid THEN Det3(design.XtX) ELSE lastDet
           /\ solveCalls' = IF valid THEN solveCalls + 1 ELSE solveCalls
           /\ IF solved /\ ~RejectsFit(impl, B, C, CurM, CurOmega)
              THEN \E r2 \in r2s :
                     /\ seenBestR2' = Max(seenBestR2, r2)
                     /\ firstMaxAt' = IF record /\ r2 > R2Threshold /\ r2 > seenBestR2
                                        THEN gridEvals + 1 ELSE firstMaxAt
                     /\ maxShared' =
                          IF record /\ r2 > R2Threshold /\ r2 > seenBestR2 THEN FALSE
                          ELSE IF record /\ r2 > R2Threshold /\ r2 = seenBestR2 THEN TRUE
                          ELSE maxShared
                     /\ IF AcceptsFit(r2, bestR2)
                        THEN /\ bestR2' = r2
                             /\ bestFit' = [tc |-> CurTc, A |-> A, B |-> B, C |-> C,
                                            m |-> CurM, omega |-> CurOmega,
                                            phi |-> CurPhi, r2 |-> r2]
                        ELSE UNCHANGED <<bestFit, bestR2>>
              ELSE UNCHANGED <<bestFit, bestR2, seenBestR2, firstMaxAt, maxShared>>
  /\ gridEvals' = gridEvals + 1
  /\ Advance
  /\ UNCHANGED <<impl, pricesLen, off, n, result>>
  /\ UNCHANGED <<series, calls, prevResult>>
  /\ UNCHANGED <<csdVars, fnVars, webVars>>

EvaluateFrom(designs, r2s) == EvaluatePass(designs, r2s, FALSE)

\* one pass of the innermost loop body, for any prices
Evaluate == EvaluateFrom(Designs, R2Values)

\* the code after the loops (lines 111-129)
Finish ==
  /\ pc = "finish"
  /\ result' = FinalResult(bestFit, n)
  /\ pc' = "done"
  /\ UNCHANGED <<impl, pricesLen, off, n, ti, mi, oi, pi, bestFit, bestR2,
                 gridEvals, lastDet, seenBestR2, solveCalls, firstMaxAt, maxShared>>
  /\ UNCHANGED <<series, calls, prevResult>>
  /\ UNCHANGED <<csdVars, fnVars, webVars>>

Lengths == {MinObservations - 1, MinObservations, RecentWindow + 1}

CsdIdle ==
  /\ csdPrices = <<>>
  /\ csdConfig = Null
  /\ csdPc = "idle"
  /\ csdResult = Null
  /\ csdCalls = 0
  /\ csdPrevResult = Null

RollIdle ==
  /\ rollResiduals = <<>>
  /\ rollWindow = 0
  /\ rollPc = "idle"
  /\ rollAr1 = <<>>
  /\ rollVar = <<>>

TauIdle ==
  /\ tauNulls = 0
  /\ tauNullsAfter = 0
  /\ tauValues = <<>>
  /\ tauLookback = 0
  /\ tauPc = "idle"
  /\ tauResult = Null

StatIdle ==
  /\ statImpl = "lib"
  /\ statAr1 = 0
  /\ statPc = "idle"
  /\ statResult = "NONE"

FnIdle == RollIdle /\ TauIdle /\ StatIdle

CfgIdle ==
  /\ cfgImpl = "caching"
  /\ cfgQuery = Null
  /\ cfgPc = "idle"
  /\ cfgConfig = Null

HandlerIdle ==
  /\ hImpl = "analyze"
  /\ hasFredKey = TRUE
  /\ hClock = 0
  /\ hCache = Null
  /\ hReqs = <<>>

UiIdle ==
  /\ uiConfig = Null
  /\ uiData = Null
  /\ uiLoading = FALSE
  /\ uiError = Null
  /\ uiLoads = <<>>

WebIdle == CfgIdle /\ HandlerIdle /\ UiIdle

\* optimize is called
LpplCall ==
  /\ impl \in {"lib", "inline"}
  /\ pricesLen \in Lengths
  /\ pc = "call"
  /\ off = 0
  /\ n = pricesLen
  /\ ti = 1 /\ mi = 1 /\ oi = 1 /\ pi = 1
  /\ bestFit = Null
  /\ bestR2 = NegInfinity
  /\ result = Null
  /\ gridEvals = 0
  /\ lastDet = 1
  /\ seenBestR2 = NegInfinity
  /\ solveCalls = 0
  /\ firstMaxAt = 0
  /\ maxShared = FALSE
  /\ calls = 1
  /\ prevResult = Null

Init ==
  /\ LpplCall
  /\ series = 0
  /\ CsdIdle
  /\ FnIdle /\ WebIdle

Next == Start \/ Evaluate \/ Finish

Spec == Init /\ [][Next]_vars

----------------------------------------------------------------------------
(* Numbers of the CSD engine                                               *)
(*                                                                         *)
(* A number is an exact rational [n, d] with d > 0 in lowest terms, or NaN *)
(* ([n |-> 0, d |-> 0]).  No operation of the engine divides a non-zero    *)
(* number by zero, so the infinities do not occur.  An AR(1) value r is    *)
(* carried as its signed square r * |r|, which orders and compares like r  *)
(* itself; a threshold t on r is the threshold t * t on the signed square. *)

NaN == [n |-> 0, d |-> 0]
IsNaN(q) == q.d = 0

RECURSIVE GCD(_, _)
GCD(a, b) == IF b = 0 THEN a ELSE GCD(b, a % b)

Norm(num, den) ==
  IF den = 0 THEN NaN
  ELSE LET g == GCD(Abs(num), Abs(den))
           sg == IF den < 0 THEN -1 ELSE 1
       IN  [n |-> (sg * num) \div g, d |-> (sg * den) \div g]

Num(k) == [n |-> k, d |-> 1]
Zero == Num(0)

\* a + b, a - b, a * b, a / b (0 / 0 is NaN); common factors are cancelled
\* before the products are formed
RAdd(a, b) ==
  IF IsNaN(a) \/ IsNaN(b) THEN NaN
  ELSE LET g == GCD(a.d, b.d)
       IN  Norm(a.n * (b.d \div g) + b.n * (a.d \div g), (a.d \div g) * b.d)
RSub(a, b) == RAdd(a, [n |-> -b.n, d |-> b.d])
RMul(a, b) ==
  IF IsNaN(a) \/ IsNaN(b) THEN NaN
  ELSE LET g1 == GCD(Abs(a.n), b.d)
           g2 == GCD(Abs(b.n), a.d)
       IN  Norm((a.n \div g1) * (b.n \div g2), (a.d \div g2) * (b.d \div g1))
RDiv(a, b) ==
  IF IsNaN(a) \/ IsNaN(b) \/ b.n = 0 THEN NaN
  ELSE RMul(a, IF b.n < 0 THEN [n |-> -b.d, d |-> -b.n] ELSE [n |-> b.d, d |-> b.n])
\* a > b, false when either is NaN
RGt(a, b) ==
  /\ ~IsNaN(a) /\ ~IsNaN(b)
  /\ LET g == GCD(a.d, b.d) IN a.n * (b.d \div g) > b.n * (a.d \div g)
RLt(a, b) == RGt(b, a)

\* arr.reduce((a, b) => a + b, 0)
RECURSIVE RSum(_)
RSum(seq) == IF seq = <<>> THEN Zero
             ELSE RAdd(RSum(SubSeq(seq, 1, Len(seq) - 1)), seq[Len(seq)])

\* arr.slice(start, end) for 0 <= start
Slice(seq, start, end) ==
  LET lo == Min(start, Len(seq))
      hi == Min(end, Len(seq))
  IN  IF lo >= hi THEN <<>> ELSE SubSeq(seq, lo + 1, hi)

\* arr.filter(v => v !== null)
RECURSIVE FilterNonNull(_)
FilterNonNull(seq) ==
  IF seq = <<>> THEN <<>>
  ELSE LET rest == FilterNonNull(SubSeq(seq, 1, Len(seq) - 1))
       IN  IF seq[Len(seq)] = Null THEN rest ELSE Append(rest, seq[Len(seq)])

----------------------------------------------------------------------------
(* StatisticalEngine (src/lib/statistical-engine.js)                       *)

\* exp(-0.5 * (x / bandwidth)^2) up to a positive factor, as a two-level step
\* function of x / bandwidth: even, positive, largest at 0 and not increasing
\* with |x / bandwidth|
KernelShape(x, bandwidth) ==
  IF x = 0 THEN 2 ELSE 1

\* gaussianKernel(x, bandwidth): the shape divided by bandwidth * sqrt(2 pi)
\* (the factor sqrt(2 pi), common to all weights, is left out); with
\* bandwidth = 0 the quotient is 0 / 0
gaussianKernel(x, bandwidth) ==
  IF bandwidth = 0 THEN NaN ELSE Norm(KernelShape(x, bandwidth), bandwidth)

\* mutant: the weighted sum not divided by the sum of the weights
detrend_Unnormalised(data, bandwidth) ==
  LET len == Len(data)
      valueSum(i) ==
        RSum([j \in 1..len |-> RMul(gaussianKernel(i - j, bandwidth), Num(data[j]))])
      trend == [i \in 1..len |-> valueSum(i)]
  IN  [trend |-> trend,
       residuals |-> [i \in 1..len |-> RSub(Num(data[i]), trend[i])]]

\* detrend(data, bandwidth); index k of the model is index k - 1 of the code
detrend(data, bandwidth) ==
  LET len == Len(data)
      weightSum(i) == RSum([j \in 1..len |-> gaussianKernel(i - j, bandwidth)])
      valueSum(i) ==
        RSum([j \in 1..len |-> RMul(gaussianKernel(i - j, bandwidth), Num(data[j]))])
      trend == [i \in 1..len |-> RDiv(valueSum(i), weightSum(i))]
  IN  [trend |-> trend,
       residuals |-> [i \in 1..len |-> RSub(Num(data[i]), trend[i])]]

\* Math.max(-1, Math.min(1, correlation)) on the signed square
Clamp1(q) == IF RGt(q, Num(1)) THEN Num(1) ELSE IF RLt(q, Num(-1)) THEN Num(-1) ELSE q

\* cov / Math.sqrt(varCurrent * varLag), as a signed square
SignedSquareCorr(cov, varCurrent, varLag) ==
  LET sq == RMul(RDiv(cov, varCurrent), RDiv(cov, varLag))
  IN  IF RLt(cov, Zero) THEN RSub(Zero, sq) ELSE sq

\* mutant: the lag window not shifted back
LagIdx_NoShift(windowSize, i) == [j \in 1..windowSize |-> i - windowSize + (j - 1)]

\* the indices of residuals pushed to currentWindow and to lagWindow at the
\* 0-based index i (lines 74-77), as indices of the code
CurrentIdx(windowSize, i) == [j \in 1..windowSize |-> i - windowSize + (j - 1)]
LagIdx(windowSize, i) == [j \in 1..windowSize |-> i - windowSize + (j - 1) - 1]

\* mutant: the least-squares slope cov / varLag, not clamped
AR1At_RegressionSlope(residuals, windowSize, i) ==
  LET currentWindow == [j \in 1..windowSize |-> residuals[CurrentIdx(windowSize, i)[j] + 1]]
      lagWindow == [j \in 1..windowSize |-> residuals[LagIdx(windowSize, i)[j] + 1]]
      meanCurrent == RDiv(RSum(currentWindow), Num(windowSize))
      meanLag == RDiv(RSum(lagWindow), Num(windowSize))
      dCurrent(j) == RSub(currentWindow[j], meanCurrent)
      dLag(j) == RSub(lagWindow[j], meanLag)
      cov == RSum([j \in 1..windowSize |-> RMul(dCurrent(j), dLag(j))])
      varCurrent == RSum([j \in 1..windowSize |-> RMul(dCurrent(j), dCurrent(j))])
      varLag == RSum([j \in 1..windowSize |-> RMul(dLag(j), dLag(j))])
  IN  IF RGt(varCurrent, Zero) /\ RGt(varLag, Zero)
      THEN SignedSquareCorr(cov, varLag, varLag)
      ELSE Zero

\* mutant: the correlation computed whatever the variances are
AR1At_NoVarianceGuard(residuals, windowSize, i) ==
  LET currentWindow == [j \in 1..windowSize |-> residuals[CurrentIdx(windowSize, i)[j] + 1]]
      lagWindow == [j \in 1..windowSize |-> residuals[LagIdx(windowSize, i)[j] + 1]]
      meanCurrent == RDiv(RSum(currentWindow), Num(windowSize))
      meanLag == RDiv(RSum(lagWindow), Num(windowSize))
      dCurrent(j) == RSub(currentWindow[j], meanCurrent)
      dLag(j) == RSub(lagWindow[j], meanLag)
      cov == RSum([j \in 1..windowSize |-> RMul(dCurrent(j), dLag(j))])
      varCurrent == RSum([j \in 1..windowSize |-> RMul(dCurrent(j), dCurrent(j))])
      varLag == RSum([j \in 1..windowSize |-> RMul(dLag(j), dLag(j))])
  IN  Clamp1(SignedSquareCorr(cov, varCurrent, varLag))

\* the AR(1) value at the 0-based index i >= windowSize + 1
AR1At(residuals, windowSize, i) ==
  LET currentWindow == [j \in 1..windowSize |-> residuals[CurrentIdx(windowSize, i)[j] + 1]]
      lagWindow == [j \in 1..windowSize |-> residuals[LagIdx(windowSize, i)[j] + 1]]
      meanCurrent == RDiv(RSum(currentWindow), Num(windowSize))
      meanLag == RDiv(RSum(lagWindow), Num(windowSize))
      dCurrent(j) == RSub(currentWindow[j], meanCurrent)
      dLag(j) == RSub(lagWindow[j], meanLag)
      cov == RSum([j \in 1..windowSize |-> RMul(dCurrent(j), dLag(j))])
      varCurrent == RSum([j \in 1..windowSize |-> RMul(dCurrent(j), dCurrent(j))])
      varLag == RSum([j \in 1..windowSize |-> RMul(dLag(j), dLag(j))])
      correlation == IF RGt(varCurrent, Zero) /\ RGt(varLag, Zero)
                     THEN SignedSquareCorr(cov, varCurrent, varLag)
                     ELSE Zero
  IN  Clamp1(correlation)

\* mutant: one more leading null
rollingAR1_OneLater(residuals, windowSize) ==
  [k \in 1..Len(residuals) |->
     IF k - 1 < windowSize + 2 THEN Null ELSE AR1At(residuals, windowSize, k - 1)]

\* rollingAR1(residuals, windowSize)
rollingAR1(residuals, windowSize) ==
  [k \in 1..Len(residuals) |->
     IF k - 1 < windowSize + 1 THEN Null ELSE AR1At(residuals, windowSize, k - 1)]

\* mutant: the population variance
VarianceAt_Population(residuals, windowSize, i) ==
  LET window == Slice(residuals, i - windowSize, i)
      mean == RDiv(RSum(window), Num(windowSize))
      sumSq == RSum([j \in 1..Len(window) |->
                       RMul(RSub(window[j], mean), RSub(window[j], mean))])
  IN  RDiv(sumSq, Num(windowSize))

\* the variance at the 0-based index i >= windowSize
VarianceAt(residuals, windowSize, i) ==
  LET window == Slice(residuals, i - windowSize, i)
      mean == RDiv(RSum(window), Num(windowSize))
      sumSq == RSum([j \in 1..Len(window) |->
                       RMul(RSub(window[j], mean), RSub(window[j], mean))])
  IN  RDiv(sumSq, Num(windowSize - 1))

\* mutant: only the computed variances are stored
rollingVariance_NoLeadingNulls(residuals, windowSize) ==
  FilterNonNull([k \in 1..Len(residuals) |->
     IF k - 1 < windowSize THEN Null ELSE VarianceAt(residuals, windowSize, k - 1)])

\* rollingVariance(residuals, windowSize)
rollingVariance(residuals, windowSize) ==
  [k \in 1..Len(residuals) |->
     IF k - 1 < windowSize THEN Null ELSE VarianceAt(residuals, windowSize, k - 1)]

\* mutant: the trailing lookback entries taken before the nulls are removed
Recent_SliceFirst(ar1Series, lookback) ==
  FilterNonNull(SubSeq(ar1Series, SliceStart(Len(ar1Series), -lookback) + 1,
                       Len(ar1Series)))

\* recent = ar1Series.filter(v => v !== null).slice(-lookback)
Recent(ar1Series, lookback) ==
  LET validAr1 == FilterNonNull(ar1Series)
  IN  SubSeq(validAr1, SliceStart(Len(validAr1), -lookback) + 1, Len(validAr1))

\* mutant: every ordered pair counted in the denominator
kendallTau_SquareDenominator(ar1Series, lookback) ==
  LET recent == Recent(ar1Series, lookback)
      k == Len(recent)
      concordant == Cardinality({pr \in (1..k) \X (1..k) :
                       pr[1] < pr[2] /\ RGt(recent[pr[2]], recent[pr[1]])})
      discordant == Cardinality({pr \in (1..k) \X (1..k) :
                       pr[1] < pr[2] /\ RLt(recent[pr[2]], recent[pr[1]])})
      pairs == (k * k) \div 2
  IN  IF k < TauMinPoints THEN Zero
      ELSE IF pairs > 0 THEN Norm(concordant - discordant, pairs) ELSE Zero

\* mutant: tied pairs left out of the denominator
kendallTau_TiesDropped(ar1Series, lookback) ==
  LET recent == Recent(ar1Series, lookback)
      k == Len(recent)
      concordant == Cardinality({pr \in (1..k) \X (1..k) :
                       pr[1] < pr[2] /\ RGt(recent[pr[2]], recent[pr[1]])})
      discordant == Cardinality({pr \in (1..k) \X (1..k) :
                       pr[1] < pr[2] /\ RLt(recent[pr[2]], recent[pr[1]])})
      pairs == concordant + discordant
  IN  IF k < TauMinPoints THEN Zero
      ELSE IF pairs > 0 THEN Norm(concordant - discordant, pairs) ELSE Zero

\* kendallTau(ar1Series, lookback)
kendallTau(ar1Series, lookback) ==
  LET recent == Recent(ar1Series, lookback)
      k == Len(recent)
      concordant == Cardinality({pr \in (1..k) \X (1..k) :
                       pr[1] < pr[2] /\ RGt(recent[pr[2]], recent[pr[1]])})
      discordant == Cardinality({pr \in (1..k) \X (1..k) :
                       pr[1] < pr[2] /\ RLt(recent[pr[2]], recent[pr[1]])})
      pairs == (k * (k - 1)) \div 2
  IN  IF k < TauMinPoints THEN Zero
      ELSE IF pairs > 0 THEN Norm(concordant - discordant, pairs) ELSE Zero

\* mutant: the threshold itself counted as above it
AboveThreshold_Inclusive(currentAR1, tenths) ==
  ~RLt(currentAR1, Norm(tenths * tenths, 100))

\* currentAR1 > t for a positive threshold t = tenths / 10, on the signed square
AboveThreshold(currentAR1, tenths) == RGt(currentAR1, Norm(tenths * tenths, 100))

\* the status of analyzeCSD (lines 175-178)
StatusOf(currentAR1) ==
  IF AboveThreshold(currentAR1, 8) THEN "CRITICAL"
  ELSE IF AboveThreshold(currentAR1, 7) THEN "ELEVATED"
  ELSE IF AboveThreshold(currentAR1, 6) THEN "RISING"
  ELSE "NORMAL"

\* csdStatus of the combined handler (part_001, lines 539-542)
csdStatus(currentAR1) ==
  IF AboveThreshold(currentAR1, 8) THEN "CRITICAL"
  ELSE IF AboveThreshold(currentAR1, 7) THEN "ELEVATED"
  ELSE IF AboveThreshold(currentAR1, 6) THEN "RISING"
  ELSE "NORMAL"

\* x || 0 for a number x
OrZero(x) == IF IsNaN(x) \/ x.n = 0 THEN Zero ELSE x

\* analyzeCSD(prices, config): what the call returns; no statement of
\* analyzeCSD or of the StatisticalEngine methods throws
analyzeCSD(prices, config) ==
  LET dt == detrend(prices, config.detrendBandwidth)
      ar1Series == rollingAR1(dt.residuals, config.csdWindow)
      varianceSeries == rollingVariance(dt.residuals, config.csdWindow)
      validAr1 == FilterNonNull(ar1Series)
      currentAR1 == IF Len(validAr1) > 0 THEN validAr1[Len(validAr1)] ELSE Zero
      validVar == FilterNonNull(varianceSeries)
  IN  [threw |-> FALSE,
       trend |-> dt.trend,
       residuals |-> dt.residuals,
       ar1Series |-> ar1Series,
       varianceSeries |-> varianceSeries,
       currentAR1 |-> currentAR1,
       kendallTau |-> kendallTau(ar1Series, config.tauLookback),
       status |-> StatusOf(currentAR1),
       currentVariance |->
         IF validVar = <<>> THEN Zero ELSE OrZero(validVar[Len(validVar)])]

\* a call of analyzeCSD
AnalyzeCSD ==
  /\ csdPc = "call"
  /\ csdResult' = analyzeCSD(csdPrices, csdConfig)
  /\ csdPc' = "done"
  /\ UNCHANGED <<csdPrices, csdConfig, csdCalls, csdPrevResult>>
  /\ UNCHANGED <<lpplVars, fnVars, webVars>>

\* the sequences over S of length 0 .. k
SeqsUpTo(S, k) == UNION {[1..len -> S] : len \in 0..k}

PriceValues == {1, 2, 4}
Bandwidths == {-1, 0, 1, 2}
Windows == {-1, 0, 1, 2, 3}
Lookbacks == {2, 100}

LpplIdle ==
  /\ impl = "lib"
  /\ pricesLen = 0
  /\ pc = "idle"
  /\ off = 0
  /\ n = 0
  /\ ti = 1 /\ mi = 1 /\ oi = 1 /\ pi = 1
  /\ bestFit = Null
  /\ bestR2 = NegInfinity
  /\ result = Null
  /\ gridEvals = 0
  /\ lastDet = 1
  /\ seenBestR2 = NegInfinity
  /\ solveCalls = 0
  /\ firstMaxAt = 0
  /\ maxShared = FALSE
  /\ series = 0
  /\ calls = 0
  /\ prevResult = Null

\* analyzeCSD is called
CsdCall ==
  /\ csdPrices \in SeqsUpTo(PriceValues, MaxCsdLen)
  /\ csdConfig \in [detrendBandwidth : Bandwidths, csdWindow : Windows,
                    tauLookback : Lookbacks]
  /\ csdPc = "call"
  /\ csdResult = Null
  /\ csdCalls = 1
  /\ csdPrevResult = Null

InitCSD ==
  /\ CsdCall
  /\ LpplIdle
  /\ FnIdle /\ WebIdle

NextCSD == AnalyzeCSD

SpecCSD == InitCSD /\ [][NextCSD]_vars

----------------------------------------------------------------------------
(* optimize and analyzeCSD called twice with the same arguments            *)

\* the price series given to optimize
SeriesIds == {0, 1, 2}

\* X'X and X'y of grid point number k (from 0, in the order of the loops) for
\* the prices of series s: the design matrix is built from the prices and the
\* grid point and from nothing else (lines 66-80)
SeriesDesign(s, k) ==
  LET i == (s + k) % 4
  IN  IF i = 0 THEN [XtX |-> SingularXtX, Xty |-> <<1, -1, 0>>]
      ELSE IF i = 1 THEN [XtX |-> RegularXtX, Xty |-> <<2, 1, 0>>]
      ELSE IF i = 2 THEN [XtX |-> RegularXtX, Xty |-> <<5, 1, 2>>]
      ELSE [XtX |-> RegularXtX, Xty |-> <<5, 1, 1>>]

\* the R^2 of that grid point (lines 96-100); series 0 fits nowhere
SeriesR2(s, k) ==
  IF s = 0 THEN 600
  ELSE <<600, 750, 810, 950, 1000>>[((s * k + k \div 4) % 5) + 1]

\* one pass of the innermost loop body, for the prices of the series
EvaluateSeries ==
  EvaluateFrom({SeriesDesign(series, gridEvals)}, {SeriesR2(series, gridEvals)})

\* optimize has returned and is called again with the same prices: the
\* locals of the new call are its own
CallAgain ==
  /\ pc = "done"
  /\ calls = 1
  /\ calls' = 2
  /\ prevResult' = result
  /\ result' = Null
  /\ pc' = "call"
  /\ ti' = 1 /\ mi' = 1 /\ oi' = 1 /\ pi' = 1
  /\ gridEvals' = 0
  /\ lastDet' = 1
  /\ seenBestR2' = NegInfinity
  /\ solveCalls' = 0
  /\ firstMaxAt' = 0
  /\ maxShared' = FALSE
  /\ UNCHANGED <<impl, pricesLen, series, off, n, bestFit, bestR2>>
  /\ UNCHANGED <<csdVars, fnVars, webVars>>

\* analyzeCSD has returned and is called again with the same prices and config
AnalyzeAgain ==
  /\ csdPc = "done"
  /\ csdCalls = 1
  /\ csdCalls' = 2
  /\ csdPrevResult' = csdResult
  /\ csdResult' = Null
  /\ csdPc' = "call"
  /\ UNCHANGED <<csdPrices, csdConfig>>
  /\ UNCHANGED <<lpplVars, fnVars, webVars>>

InitTwice ==
  /\ \/ LpplCall /\ series \in SeriesIds /\ CsdIdle
     \/ CsdCall /\ LpplIdle
  /\ FnIdle /\ WebIdle

NextTwice ==
  \/ Start \/ EvaluateSeries \/ Finish \/ CallAgain
  \/ AnalyzeCSD \/ AnalyzeAgain

SpecTwice == InitTwice /\ [][NextTwice]_vars

----------------------------------------------------------------------------
(* rollingAR1 and rollingVariance on residual series of their own          *)

\* the numbers of a sequence of integers
NumSeq(ints) == [k \in 1..Len(ints) |-> Num(ints[k])]

\* a call of rollingAR1 and a call of rollingVariance on the same arguments
Rolling ==
  /\ rollPc = "call"
  /\ rollAr1' = rollingAR1(NumSeq(rollResiduals), rollWindow)
  /\ rollVar' = rollingVariance(NumSeq(rollResiduals), rollWindow)
  /\ rollPc' = "done"
  /\ UNCHANGED <<rollResiduals, rollWindow>>
  /\ UNCHANGED <<lpplVars, csdVars, tauVars, statVars, webVars>>

ResidualValues == {-1, 0, 1, 2}

InitRolling ==
  /\ rollResiduals \in SeqsUpTo(ResidualValues, MaxRollLen)
  /\ rollWindow \in Windows
  /\ rollPc = "call"
  /\ rollAr1 = <<>>
  /\ rollVar = <<>>
  /\ LpplIdle /\ CsdIdle /\ TauIdle /\ StatIdle /\ WebIdle

NextRolling == Rolling

SpecRolling == InitRolling /\ [][NextRolling]_vars

----------------------------------------------------------------------------
(* kendallTau on AR(1) series of its own                                   *)

\* the AR(1) value v / 16
Sixteenths(v) == Norm(v, 16)

\* an ar1Series: the values, with `nulls` nulls put after the first `after`
\* of them (after all of them if they are fewer)
Ar1SeriesOf(nulls, after, values) ==
  LET before == Min(after, Len(values))
  IN  [k \in 1..(nulls + Len(values)) |->
        IF k <= before THEN Sixteenths(values[k])
        ELSE IF k <= before + nulls THEN Null
        ELSE Sixteenths(values[k - nulls])]

\* the ar1Series argument
TauSeries == Ar1SeriesOf(tauNulls, tauNullsAfter, tauValues)

\* the series gets one more value: 0 first, then the last value or a
\* sixteenth more or less
TauExtend ==
  /\ tauPc = "build"
  /\ Len(tauValues) < MaxTauLen
  /\ \E delta \in {-1, 0, 1} :
       tauValues' = Append(tauValues,
                           IF tauValues = <<>> THEN 0
                           ELSE tauValues[Len(tauValues)] + delta)
  /\ UNCHANGED <<tauNulls, tauNullsAfter, tauLookback, tauPc, tauResult>>
  /\ UNCHANGED <<lpplVars, csdVars, rollVars, statVars, webVars>>

\* the nulls and the lookbacks of the calls explored: no null and the default
\* lookback; two nulls after the first value or after the eighth
TauCalls ==
  { [nulls |-> 0, after |-> 0, lookback |-> 100],
    [nulls |-> 2, after |-> 8, lookback |-> 10],
    [nulls |-> 2, after |-> 1, lookback |-> 3] }

\* a call of kendallTau
KendallTau ==
  /\ tauPc = "build"
  /\ \E call \in TauCalls :
       /\ tauNulls' = call.nulls
       /\ tauNullsAfter' = call.after
       /\ tauLookback' = call.lookback
       /\ tauResult' = kendallTau(Ar1SeriesOf(call.nulls, call.after, tauValues),
                                  call.lookback)
  /\ tauPc' = "done"
  /\ UNCHANGED tauValues
  /\ UNCHANGED <<lpplVars, csdVars, rollVars, statVars, webVars>>

InitTau ==
  /\ tauNulls = 0
  /\ tauNullsAfter = 0
  /\ tauValues = <<>>
  /\ tauLookback = 0
  /\ tauPc = "build"
  /\ tauResult = Null
  /\ LpplIdle /\ CsdIdle /\ RollIdle /\ StatIdle /\ WebIdle

NextTau == TauExtend \/ KendallTau

SpecTau == InitTau /\ [][NextTau]_vars

----------------------------------------------------------------------------
(* The status, on AR(1) values of its own                                  *)

\* the AR(1) value h / 100 as the model carries it: its signed square
SignedSquare(h) == Norm(h * Abs(h), 10000)

\* the values rollingAR1 can return, in hundredths: it clamps to [-1, 1]
Ar1Hundredths == -100..100

\* the status is assigned from currentAR1
Classify ==
  /\ statPc = "call"
  /\ statResult' = IF statImpl = "lib" THEN StatusOf(SignedSquare(statAr1))
                                       ELSE csdStatus(SignedSquare(statAr1))
  /\ statPc' = "done"
  /\ UNCHANGED <<statImpl, statAr1>>
  /\ UNCHANGED <<lpplVars, csdVars, rollVars, tauVars, webVars>>

InitStatus ==
  /\ statImpl \in {"lib", "inline"}
  /\ statAr1 \in Ar1Hundredths
  /\ statPc = "call"
  /\ statResult = "NONE"
  /\ LpplIdle /\ CsdIdle /\ RollIdle /\ TauIdle /\ WebIdle

NextStatus == Classify

SpecStatus == InitStatus /\ [][NextStatus]_vars

----------------------------------------------------------------------------
(* optimize on prices whose grid points repeat their R^2                   *)
(*                                                                         *)
(* Every grid point either fails the constraints (B = 0) or passes them    *)
(* with one of three R^2 values, so that the largest viable R^2 is often   *)
(* computed at several grid points; the history records where it was      *)
(* computed first and whether it was computed again.                       *)

TieDesigns ==
  { [XtX |-> RegularXtX, Xty |-> <<2, 1, 0>>],
    [XtX |-> RegularXtX, Xty |-> <<5, 1, 1>>] }

TieR2Values == {750, 810, 950}

EvaluateTies == EvaluatePass(TieDesigns, TieR2Values, TRUE)

NextTies == Start \/ EvaluateTies \/ Finish

SpecTies == Init /\ [][NextTies]_vars

----------------------------------------------------------------------------
(* The /api/analyze handlers: building the config from the query           *)
(*                                                                         *)
(* A query value is the text the caller sent, a sequence of characters.    *)
(* parseInt reads it as JavaScript does: leading blanks are skipped, one   *)
(* sign is taken, then decimal digits up to the first other character.     *)

DefaultBandwidth == 50
DefaultWindow == 250
DefaultLookback == 100

\* String(undefined): what parseInt sees when the parameter is absent
Undefined == <<"u", "n", "d", "e", "f", "i", "n", "e", "d">>

IsDigit(c) == c \in {"0", "1", "2", "3", "4", "5", "6", "7", "8", "9"}

DigitValue(c) ==
  CASE c = "0" -> 0 [] c = "1" -> 1 [] c = "2" -> 2 [] c = "3" -> 3
    [] c = "4" -> 4 [] c = "5" -> 5 [] c = "6" -> 6 [] c = "7" -> 7
    [] c = "8" -> 8 [] c = "9" -> 9

RECURSIVE SkipBlanks(_, _)
\* index of the first character of text at or after k that is not a blank
SkipBlanks(text, k) ==
  IF k <= Len(text) /\ text[k] = " " THEN SkipBlanks(text, k + 1) ELSE k

RECURSIVE ReadDigits(_, _, _)
\* the value of the digits of text from k on, continuing the value acc
ReadDigits(text, k, acc) ==
  IF k <= Len(text) /\ IsDigit(text[k])
    THEN ReadDigits(text, k + 1, acc * 10 + DigitValue(text[k]))
    ELSE acc

parseInt(text) ==
  LET s == SkipBlanks(text, 1)
      signed == s <= Len(text) /\ text[s] \in {"-", "+"}
      d == IF signed THEN s + 1 ELSE s
  IN  IF d <= Len(text) /\ IsDigit(text[d])
        THEN Num((IF signed /\ text[s] = "-" THEN -1 ELSE 1) * ReadDigits(text, d, 0))
        ELSE NaN

\* x || dflt, mutated: only NaN is replaced
OrDefault_NaNOnly(x, dflt) == IF IsNaN(x) THEN dflt ELSE x.n

\* x || dflt for a number x: NaN and 0 are falsy
OrDefault(x, dflt) == IF IsNaN(x) \/ x.n = 0 THEN dflt ELSE x.n

ConfigOf(query) ==
  [detrendBandwidth |-> OrDefault(parseInt(query.detrendBandwidth), DefaultBandwidth),
   csdWindow        |-> OrDefault(parseInt(query.csdWindow), DefaultWindow),
   tauLookback      |-> OrDefault(parseInt(query.tauLookback), DefaultLookback)]

BuildConfig ==
  /\ cfgPc = "call"
  /\ cfgConfig' = ConfigOf(cfgQuery)
  /\ cfgPc' = "done"
  /\ UNCHANGED <<cfgImpl, cfgQuery>>
  /\ UNCHANGED <<lpplVars, csdVars, fnVars, handlerVars, uiVars>>

\* query values: absent, empty, words, integers, and integers with a tail
QueryTexts ==
  { Undefined, <<>>, <<"a", "b", "c">>, <<"0">>, <<"7", "5">>, <<"-", "5">>,
    <<"+", "5">>, <<"1", "2", "p", "x">>, <<"3", ".", "9">>, <<" ", "7">>, <<"-">> }

InitConfig ==
  /\ cfgImpl \in {"caching", "combined"}
  /\ cfgQuery \in [detrendBandwidth : QueryTexts, csdWindow : QueryTexts,
                   tauLookback : QueryTexts]
  /\ cfgPc = "call"
  /\ cfgConfig = Null
  /\ LpplIdle /\ CsdIdle /\ FnIdle /\ HandlerIdle /\ UiIdle

NextConfig == BuildConfig

SpecConfig == InitConfig /\ [][NextConfig]_vars

----------------------------------------------------------------------------
(* The caching handlers: /api/analyze and /api/market                      *)
(*                                                                         *)
(* A request runs in two steps: from its arrival to the first await (the   *)
(* config, the cache check, the key check of /api/market) and from the     *)
(* answers of its fetches to its response.  Requests of one process        *)
(* interleave at the awaits and share the module's cache.  Time is in      *)
(* minutes and passes a quarter of an hour at a time.                      *)

MaxRequests == 2
MaxTicks == 3

CacheTtlAnalyze == 30
CacheTtlMarket == 15
CACHE_TTL(i) == IF i = "analyze" THEN CacheTtlAnalyze ELSE CacheTtlMarket

\* the process was loaded long after the epoch the empty cache is stamped with
ClockAtLoad == 2 * CacheTtlAnalyze

\* JSON.stringify(config): the names and values in the order of the literal
stringify(config) ==
  <<"detrendBandwidth", config.detrendBandwidth, "csdWindow", config.csdWindow,
    "tauLookback", config.tauLookback>>

\* the cacheKey of a request: /api/market has none
CacheKeyOf(i, config) == IF i = "analyze" THEN stringify(config) ELSE Null

\* mutant: the key of the cached analysis is not compared
CacheHit_AnyKey(i, cache, key, now) ==
  cache.data # Null /\ now - cache.timestamp < CACHE_TTL(i)

\* cache.data && cache.key === cacheKey && Date.now() - cache.timestamp < CACHE_TTL
CacheHit(i, cache, key, now) ==
  /\ cache.data # Null
  /\ i = "analyze" => cache.key = key
  /\ now - cache.timestamp < CACHE_TTL(i)

Idle == [pc |-> "idle", query |-> Null, config |-> Null, response |-> Null]

Response(status, cached, age, data, error, analysed) ==
  [status |-> status, cached |-> cached, cacheAge |-> age, data |-> data,
   error |-> error, analysed |-> analysed]

\* how the second step of a request can end
Outcomes(i) ==
  IF i = "analyze"
    THEN {"liquidity error", "market error", "insufficient data",
          "exception", "exception in analysis", "ok"}
    ELSE {"exception", "ok"}

ResponseTo(outcome, analysis) ==
  CASE outcome = "ok" -> Response(200, FALSE, Null, analysis, Null, TRUE)
    [] outcome = "insufficient data" ->
         Response(400, FALSE, Null, Null, "Insufficient data for analysis", FALSE)
    [] outcome = "liquidity error" ->
         Response(500, FALSE, Null, Null, "Failed to fetch liquidity data", FALSE)
    [] outcome = "market error" ->
         Response(500, FALSE, Null, Null, "Failed to fetch market data", FALSE)
    [] outcome = "exception" ->
         Response(500, FALSE, Null, Null, "Analysis failed", FALSE)
    [] outcome = "exception in analysis" ->
         Response(500, FALSE, Null, Null, "Analysis failed", TRUE)

\* mutant: the cache is also written when the data are insufficient
CacheAfter_AlsoInsufficient(outcome, cache, analysis, key, now) ==
  IF outcome \in {"ok", "insufficient data"}
    THEN [data |-> analysis, key |-> key, timestamp |-> now]
    ELSE cache

\* cache = { data: result, key: cacheKey, timestamp: Date.now() }, reached
\* only by a request that returns its result
CacheAfter(outcome, cache, analysis, key, now) ==
  IF outcome = "ok" THEN [data |-> analysis, key |-> key, timestamp |-> now]
  ELSE cache

\* a request arrives: lines 23-42 (market.js 25-44)
Receive(r, query) ==
  /\ hReqs[r].pc \in {"idle", "done"}
  /\ LET config == IF hImpl = "analyze" THEN ConfigOf(query) ELSE Null
         cacheKey == CacheKeyOf(hImpl, config)
         arrived == [pc |-> "fetching", query |-> query, config |-> config,
                     response |-> Null]
     IN  hReqs' = [hReqs EXCEPT ![r] =
           IF CacheHit(hImpl, hCache, cacheKey, hClock)
             THEN [arrived EXCEPT !.pc = "done",
                     !.response = Response(200, TRUE, hClock - hCache.timestamp,
                                           hCache.data, Null, FALSE)]
           ELSE IF hImpl = "market" /\ ~hasFredKey
             THEN [arrived EXCEPT !.pc = "done",
                     !.response = Response(500, FALSE, Null, Null,
                                           "FRED_API_KEY not configured", FALSE)]
           ELSE arrived]
  /\ UNCHANGED <<hImpl, hasFredKey, hClock, hCache>>
  /\ UNCHANGED <<lpplVars, csdVars, fnVars, cfgVars, uiVars>>

\* the fetches of a request have answered: lines 63-211 (market.js 57-120)
Complete(r, outcome) ==
  /\ hReqs[r].pc = "fetching"
  /\ LET analysis == [success |-> TRUE, config |-> hReqs[r].config]
         cacheKey == CacheKeyOf(hImpl, hReqs[r].config)
     IN  /\ hCache' = CacheAfter(outcome, hCache, analysis, cacheKey, hClock)
         /\ hReqs' = [hReqs EXCEPT ![r] =
                        [@ EXCEPT !.pc = "done",
                                  !.response = ResponseTo(outcome, analysis)]]
  /\ UNCHANGED <<hImpl, hasFredKey, hClock>>
  /\ UNCHANGED <<lpplVars, csdVars, fnVars, cfgVars, uiVars>>

\* a quarter of an hour passes
Tick ==
  /\ hClock < ClockAtLoad + MaxTicks * CacheTtlMarket
  /\ hClock' = hClock + CacheTtlMarket
  /\ UNCHANGED <<hImpl, hasFredKey, hCache, hReqs>>
  /\ UNCHANGED <<lpplVars, csdVars, fnVars, cfgVars, uiVars>>

\* queries: csdWindow "0" (which gives the default) and "75"
HandlerQueries ==
  [detrendBandwidth : {Undefined}, csdWindow : {<<"0">>, <<"7", "5">>},
   tauLookback : {Undefined}]

QueriesOf(i) == IF i = "analyze" THEN HandlerQueries ELSE {Null}

InitHandler ==
  /\ hImpl \in {"analyze", "market"}
  /\ hasFredKey \in (IF hImpl = "market" THEN BOOLEAN ELSE {TRUE})
  /\ hClock = ClockAtLoad
  /\ hCache = [data |-> Null, key |-> Null, timestamp |-> 0]
  /\ hReqs = [r \in 1..MaxRequests |-> Idle]
  /\ LpplIdle /\ CsdIdle /\ FnIdle /\ CfgIdle /\ UiIdle

ReceiveRequest ==
  \E r \in 1..MaxRequests : \E query \in QueriesOf(hImpl) : Receive(r, query)

CompleteRequest ==
  \E r \in 1..MaxRequests : \E outcome \in Outcomes(hImpl) : Complete(r, outcome)

NextHandler == ReceiveRequest \/ CompleteRequest \/ Tick

SpecHandler == InitHandler /\ [][NextHandler]_vars

----------------------------------------------------------------------------
(* The FLRTrackerLive component: loadData and its effect                   *)
(*                                                                         *)
(* A call of loadData runs in two steps: up to its fetch (loading on,      *)
(* error cleared, the request sent with the config of that render) and     *)
(* from the response on.  While loading is on the component renders only   *)
(* the loading screen, so the buttons and sliders can be used only while   *)
(* it is off.  Under reactStrictMode a development build runs the mount    *)
(* effect twice, a production build once.                                  *)

MaxLoads == 3

\* useState({detrendBandwidth: 50, csdWindow: 250, tauLookback: 100})
InitialConfig ==
  [detrendBandwidth |-> DefaultBandwidth, csdWindow |-> DefaultWindow,
   tauLookback |-> DefaultLookback]

\* positions of the csdWindow slider (min 100, max 500, step 50)
SliderWindows == {100, DefaultWindow}

Awaiting(loads) == { r \in 1..Len(loads) : loads[r].pc = "awaiting" }

\* the first step of a call of loadData with the config of its render;
\* `changed` notes that it runs because the config changed
Started(loads, config, changed) ==
  Append(loads, [config |-> config, pc |-> "awaiting",
                 overtakes |-> IF changed THEN Awaiting(loads) ELSE {}])

\* useEffect(() => { loadData(); }, [loadData]) on mount
Mount ==
  /\ uiLoads = <<>>
  /\ \E runs \in {1, 2} :
       uiLoads' = IF runs = 1 THEN Started(uiLoads, uiConfig, FALSE)
                  ELSE Started(Started(uiLoads, uiConfig, FALSE), uiConfig, FALSE)
  /\ uiLoading' = TRUE
  /\ uiError' = Null
  /\ UNCHANGED <<uiConfig, uiData>>
  /\ UNCHANGED <<lpplVars, csdVars, fnVars, cfgVars, handlerVars>>

\* onClick={loadData}: Refresh, Retry, Apply & Recalculate
ClickLoad ==
  /\ uiLoads # <<>> /\ Len(uiLoads) < MaxLoads
  /\ ~uiLoading
  /\ uiLoads' = Started(uiLoads, uiConfig, FALSE)
  /\ uiLoading' = TRUE
  /\ uiError' = Null
  /\ UNCHANGED <<uiConfig, uiData>>
  /\ UNCHANGED <<lpplVars, csdVars, fnVars, cfgVars, handlerVars>>

\* a slider's onChange: setConfig, then the effect of the new loadData
ChangeConfig ==
  /\ uiLoads # <<>> /\ Len(uiLoads) < MaxLoads
  /\ ~uiLoading /\ uiError = Null
  /\ \E w \in SliderWindows \ {uiConfig.csdWindow} :
       /\ uiConfig' = [uiConfig EXCEPT !.csdWindow = w]
       /\ uiLoads' = Started(uiLoads, uiConfig', TRUE)
  /\ uiLoading' = TRUE
  /\ uiError' = Null
  /\ UNCHANGED uiData
  /\ UNCHANGED <<lpplVars, csdVars, fnVars, cfgVars, handlerVars>>

\* the response of load r is a result: setData(result), setLoading(false)
LoadSucceeds ==
  \E r \in Awaiting(uiLoads) :
    /\ uiData' = [load |-> r, config |-> uiLoads[r].config]
    /\ uiLoading' = FALSE
    /\ uiLoads' = [uiLoads EXCEPT ![r].pc = "ok"]
    /\ UNCHANGED <<uiConfig, uiError>>
    /\ UNCHANGED <<lpplVars, csdVars, fnVars, cfgVars, handlerVars>>

\* the response of load r is an error: setError(..), setLoading(false)
LoadFails ==
  \E r \in Awaiting(uiLoads) :
    /\ uiError' = [load |-> r]
    /\ uiLoading' = FALSE
    /\ uiLoads' = [uiLoads EXCEPT ![r].pc = "failed"]
    /\ UNCHANGED <<uiConfig, uiData>>
    /\ UNCHANGED <<lpplVars, csdVars, fnVars, cfgVars, handlerVars>>

InitUI ==
  /\ uiConfig = InitialConfig
  /\ uiData = Null
  /\ uiLoading = TRUE
  /\ uiError = Null
  /\ uiLoads = <<>>
  /\ LpplIdle /\ CsdIdle /\ FnIdle /\ CfgIdle /\ HandlerIdle

NextUI == Mount \/ ClickLoad \/ ChangeConfig \/ LoadSucceeds \/ LoadFails

SpecUI == InitUI /\ [][NextUI]_vars

----------------------------------------------------------------------------
(* Properties of LPPLModel.optimize                                        *)

HasFit(r) == "tc" \in DOMAIN r
Returned == pc = "done"

\* 1-based position of value v in the list s
IndexIn(s, v) == CHOOSE k \in 1..Len(s) : s[k] = v

\* a fit's grid point is one of the loops' points
IsGridPoint(f) ==
  /\ \E k \in 1..TcCount(impl) : f.tc = TcAt(impl, n, k)
  /\ \E k \in 1..Len(MRange(impl)) : f.m = MRange(impl)[k]
  /\ \E k \in 1..Len(OmegaRange(impl)) : f.omega = OmegaRange(impl)[k]
  /\ \E k \in 1..Len(PhiRange(impl)) : f.phi = PhiRange(impl)[k]

\* how many grid points have been visited once the point of fit f has been
Ordinal(f) ==
  LET kt == (f.tc - n - TcFirst) \div TcStep(impl)
      km == IndexIn(MRange(impl), f.m) - 1
      ko == IndexIn(OmegaRange(impl), f.omega) - 1
      kp == IndexIn(PhiRange(impl), f.phi)
  IN  ((kt * Len(MRange(impl)) + km) * Len(OmegaRange(impl)) + ko)
        * Len(PhiRange(impl)) + kp

\* B < 0 and |C| <= |B| for rationals with positive denominators
ConstraintsHold(f) ==
  /\ f.B.d > 0 /\ f.C.d > 0
  /\ f.B.n < 0
  /\ Abs(f.C.n) * f.B.d <= Abs(f.B.n) * f.C.d

\* C1: for every input of length L >= 100 the fitted series is the trailing
\* min(L, 500) prices and n is its length, whichever optimize runs.
C1_FitsLast500 ==
  (pc # "call" /\ pricesLen >= 100) =>
     /\ n = Min(pricesLen, 500)
     /\ off = pricesLen - Min(pricesLen, 500)

C4_NoFitReportsBestR2 ==
  (Returned /\ pricesLen >= 100 /\ seenBestR2 <= 750) =>
     /\ ~HasFit(result)
     /\ result.isBubble = FALSE
     /\ result.confidence = 0
     /\ result.tcDays = Null
     /\ result.r2 = IF seenBestR2 = NegInfinity THEN 0 ELSE seenBestR2

C6_ReturnsBestCandidate ==
  (Returned /\ HasFit(result)) =>
     /\ gridEvals = GridSize(impl)
     /\ IsGridPoint(result)
     /\ ConstraintsHold(result)
     /\ result.r2 > 750
     /\ result.r2 >= seenBestR2

C6_Witness ==
  /\ Returned /\ HasFit(result)
  /\ result.r2 = 810 /\ seenBestR2 = 810
  /\ Ordinal(result) < GridSize(impl)

\* C7: a returned fit has tcDays = tc - n + 1 and isBubble exactly when
\* confidence > 0.3 and 5 < tcDays < 200.
C7_TcDaysAndIsBubble ==
  (Returned /\ HasFit(result)) =>
     /\ result.tcDays = result.tc - n + 1
     /\ result.isBubble <=>
          (result.confidence > 300 /\ result.tcDays > 5 /\ result.tcDays < 200)

C7_Witness ==
  /\ Returned /\ HasFit(result)
  /\ result.confidence > 300 /\ result.tcDays >= 200 /\ ~result.isBubble

C9_SingularSkipped ==
  [][(pc = "grid" /\ lastDet' = 0) =>
       /\ bestFit' = bestFit
       /\ bestR2' = bestR2
       /\ result' = result
       /\ gridEvals' = gridEvals + 1
       /\ pc' = IF gridEvals' = GridSize(impl) THEN "finish" ELSE "grid"]_vars

C9_Witness ==
  pc = "grid" /\ lastDet = 0 /\ bestFit # Null /\ gridEvals > Ordinal(bestFit)

\* after any prefix of the grid bestFit is null, or a candidate evaluated
\* before that has B < 0, |C| <= |B| and R^2 > 0.75 with bestR2 = its R^2
BestSoFarValid ==
  pc \in {"grid", "finish", "done"} =>
     \/ bestFit = Null /\ bestR2 = NegInfinity
     \/ /\ bestFit # Null
        /\ IsGridPoint(bestFit)
        /\ Ordinal(bestFit) <= gridEvals
        /\ ConstraintsHold(bestFit)
        /\ bestFit.r2 > 750
        /\ bestR2 = bestFit.r2

\* C10: the best-so-far is valid in every state of the search, and bestR2 never
\* decreases from one step to the next.
C10_BestSoFar ==
  []BestSoFarValid /\ [][bestR2' >= bestR2]_vars

C10_Witness ==
  pc = "grid" /\ bestFit # Null /\ gridEvals > Ordinal(bestFit) /\ bestR2 = 950

----------------------------------------------------------------------------
(* Properties of analyzeCSD                                                *)

----------------------------------------------------------------------------
(* Properties of two calls with the same arguments                         *)

\* the second call has returned what the first call returned
SameOutputs ==
  /\ (calls = 2 /\ pc = "done") => result = prevResult
  /\ (csdCalls = 2 /\ csdPc = "done") => csdResult = csdPrevResult

\* the search of a call starts from no fit, whatever was called before
FreshLocals ==
  (pc = "grid" /\ gridEvals = 0) => (bestFit = Null /\ bestR2 = NegInfinity)

----------------------------------------------------------------------------
(* Properties of rollingAR1 and rollingVariance                            *)

RollDone == rollPc = "done"
RollN == Len(rollResiduals)
\* a finite number, not null and not NaN
IsNumber(x) == DOMAIN x = {"n", "d"} /\ x.d > 0
\* the 0-based indices at which rollingAR1 returned a value
Ar1Defined == {i \in 0..RollN - 1 : rollAr1[i + 1] # Null}
\* residuals[from .. to] of the code (0-based, both ends included)
ResidualsFromTo(from, to) == [j \in 1..(to - from + 1) |-> rollResiduals[from + j]]
IsConstant(seq) == \A j1, j2 \in 1..Len(seq) : seq[j1] = seq[j2]
RECURSIVE SumOf(_)
SumOf(ints) == IF ints = <<>> THEN 0 ELSE ints[1] + SumOf(Tail(ints))
SumOfSquares(ints) == SumOf([j \in 1..Len(ints) |-> ints[j] * ints[j]])

\* C12: rollingAR1 returns one entry per residual; entry i is null exactly
\* when i < w + 1 and a number otherwise; index w is the one index at which
\* rollingVariance has a value and rollingAR1 has none; an input of length
\* <= w + 1 gives an all-null series.
C12_AR1DefinedFrom ==
  RollDone =>
     /\ Len(rollAr1) = RollN
     /\ \A i \in 0..RollN - 1 :
          /\ (rollAr1[i + 1] = Null) <=> (i < rollWindow + 1)
          /\ i >= rollWindow + 1 => IsNumber(rollAr1[i + 1])
          /\ (rollVar[i + 1] # Null /\ rollAr1[i + 1] = Null) <=> (i = rollWindow)
     /\ RollN <= rollWindow + 1 => \A i \in 0..RollN - 1 : rollAr1[i + 1] = Null

C12_Witness ==
  /\ RollDone /\ rollWindow = 2 /\ RollN = 5
  /\ rollAr1[3] = Null /\ rollVar[3] # Null
  /\ rollAr1[4] # Null /\ rollAr1[4] # Zero

\* C13: at every index i where rollingAR1 returns a value the current window
\* is residuals[i-w .. i-1] and the lag window residuals[i-w-1 .. i-2], both
\* of length w, neither holding residuals[i], and every index read is one of
\* 0 .. n-1.
C13_WindowsAligned ==
  RollDone =>
     \A i \in Ar1Defined :
        LET cur == CurrentIdx(rollWindow, i)
            lag == LagIdx(rollWindow, i)
            w == Max(rollWindow, 0)
        IN  /\ Len(cur) = w /\ Len(lag) = w
            /\ \A j \in 1..w :
                 /\ cur[j] = (i - w) + (j - 1)
                 /\ lag[j] = (i - w - 1) + (j - 1)
                 /\ cur[j] # i /\ lag[j] # i
                 /\ cur[j] \in 0..RollN - 1
                 /\ lag[j] \in 0..RollN - 1
            /\ w > 0 => /\ cur[1] = i - w /\ cur[w] = i - 1
                        /\ lag[1] = i - w - 1 /\ lag[w] = i - 2

C13_Witness ==
  /\ RollDone /\ rollWindow = 3 /\ RollN = 5
  /\ 4 \in Ar1Defined
  /\ LagIdx(rollWindow, 4) = <<0, 1, 2>>
  /\ CurrentIdx(rollWindow, 4) = <<1, 2, 3>>

C16_VarianceIsSampleVariance ==
  RollDone =>
     /\ Len(rollVar) = RollN
     /\ \A i \in 0..RollN - 1 :
          /\ i < rollWindow => rollVar[i + 1] = Null
          /\ i >= rollWindow => rollVar[i + 1] # Null
          /\ (i >= rollWindow /\ rollWindow >= 2) =>
               LET window == ResidualsFromTo(i - rollWindow, i - 1)
                   w == rollWindow
               IN  rollVar[i + 1] =
                     Norm(w * SumOfSquares(window) - SumOf(window) * SumOf(window),
                          w * (w - 1))

C16_Witness ==
  /\ RollDone /\ rollWindow = 3 /\ RollN = 5
  /\ rollResiduals[5] # rollResiduals[4]
  /\ rollVar[3] = Null
  /\ rollVar[4] # Null /\ rollVar[4] # Zero
  /\ rollVar[5] # rollVar[4]

----------------------------------------------------------------------------
(* Properties of kendallTau                                                *)

TauDone == tauPc = "done"
\* the values kendallTau is to work on: the last min(lookback, k) of the k
\* non-null entries, in sixteenths
TauSelected ==
  LET k == Len(tauValues)
      kept == Min(tauLookback, k)
  IN  [j \in 1..kept |-> tauValues[k - kept + j]]
Pairs(k) == {pr \in (1..k) \X (1..k) : pr[1] < pr[2]}
Concordant(vals) == Cardinality({pr \in Pairs(Len(vals)) : vals[pr[1]] < vals[pr[2]]})
Discordant(vals) == Cardinality({pr \in Pairs(Len(vals)) : vals[pr[1]] > vals[pr[2]]})
Tied(vals) == Cardinality({pr \in Pairs(Len(vals)) : vals[pr[1]] = vals[pr[2]]})
StrictlyIncreasing(vals) == \A j \in 1..Len(vals) - 1 : vals[j] < vals[j + 1]
StrictlyDecreasing(vals) == \A j \in 1..Len(vals) - 1 : vals[j] > vals[j + 1]

\* C17: kendallTau works on the trailing `lookback` of the non-null entries
\* (nulls do not count toward the lookback), and returns 0 when these are
\* fewer than 10, whatever they are.
C17_TauSelection ==
  TauDone =>
     /\ Recent(TauSeries, tauLookback) =
          [j \in 1..Len(TauSelected) |-> Sixteenths(TauSelected[j])]
     /\ Len(TauSelected) < 10 => tauResult = Zero

C17_Witness ==
  /\ TauDone /\ tauNulls = 2 /\ tauNullsAfter = 8 /\ tauLookback = 10
  /\ Len(tauValues) = 10
  /\ TauSeries[9] = Null /\ TauSeries[12] # Null
  /\ tauResult # Zero

\* C18: on at least 10 selected values kendallTau returns 1 when they are
\* strictly increasing and -1 when they are strictly decreasing.
C18_TauOfMonotone ==
  (TauDone /\ Len(TauSelected) >= 10) =>
     /\ StrictlyIncreasing(TauSelected) => tauResult = Num(1)
     /\ StrictlyDecreasing(TauSelected) => tauResult = Num(-1)

C18_Witness ==
  /\ TauDone /\ Len(TauSelected) >= 10
  /\ StrictlyDecreasing(TauSelected)
  /\ tauResult = Num(-1)

\* C19: on k >= 10 selected values kendallTau is (concordant - discordant)
\* over k(k-1)/2, the pairs i < j with equal values being in neither count but
\* in the denominator; it lies in [-1, 1] and is 0 when all values are equal.
C19_TauFormula ==
  (TauDone /\ Len(TauSelected) >= 10) =>
     LET k == Len(TauSelected)
         total == Concordant(TauSelected) + Discordant(TauSelected) + Tied(TauSelected)
     IN  /\ total = (k * (k - 1)) \div 2
         /\ tauResult = Norm(Concordant(TauSelected) - Discordant(TauSelected), total)
         /\ IsNumber(tauResult)
         /\ tauResult.n <= tauResult.d /\ -tauResult.n <= tauResult.d
         /\ IsConstant(TauSelected) => tauResult = Zero

C19_Witness ==
  /\ TauDone /\ Len(TauSelected) >= 10
  /\ Tied(TauSelected) > 0
  /\ Concordant(TauSelected) > Discordant(TauSelected)
  /\ Discordant(TauSelected) > 0
  /\ tauResult.n > 0 /\ tauResult.n < tauResult.d

----------------------------------------------------------------------------
(* Properties of the status                                                *)

\* C20: the status depends on currentAR1 only, the same way in analyzeCSD and
\* in the combined handler: CRITICAL iff currentAR1 > 0.8, ELEVATED iff
\* 0.7 < currentAR1 <= 0.8, RISING iff 0.6 < currentAR1 <= 0.7, NORMAL otherwise.
C20_StatusThresholds ==
  statPc = "done" =>
     /\ statResult = "CRITICAL" <=> statAr1 > 80
     /\ statResult = "ELEVATED" <=> (70 < statAr1 /\ statAr1 <= 80)
     /\ statResult = "RISING" <=> (60 < statAr1 /\ statAr1 <= 70)
     /\ statResult = "NORMAL" <=> statAr1 <= 60

C20_Witness ==
  /\ statPc = "done" /\ statImpl = "inline"
  /\ statAr1 = 80
  /\ statResult = "ELEVATED"

----------------------------------------------------------------------------
(* Properties of analyzeCSD                                                *)

\* the config is one the Config of the specification allows
ValidConfig(config) ==
  config.detrendBandwidth > 0 /\ config.csdWindow > 0 /\ config.tauLookback > 0

\* the last entry of seq that is not null, or none when there is none
HasNonNull(seq) == \E k \in 1..Len(seq) : seq[k] # Null
LastNonNull(seq) ==
  seq[CHOOSE k \in 1..Len(seq) :
        seq[k] # Null /\ \A later \in (k + 1)..Len(seq) : seq[later] = Null]

\* C21: analyzeCSD reports as currentAR1 the last non-null entry of ar1Series
\* and as currentVariance the last non-null entry of varianceSeries, 0 for
\* either when there is none; with no AR(1) value kendallTau is 0 and the
\* status NORMAL.
C21_CurrentValues ==
  (csdPc = "done" /\ ValidConfig(csdConfig)) =>
     /\ csdResult.currentAR1 =
          IF HasNonNull(csdResult.ar1Series)
          THEN LastNonNull(csdResult.ar1Series) ELSE Zero
     /\ csdResult.currentVariance =
          IF HasNonNull(csdResult.varianceSeries)
          THEN LastNonNull(csdResult.varianceSeries) ELSE Zero
     /\ ~HasNonNull(csdResult.ar1Series) =>
          (csdResult.kendallTau = Zero /\ csdResult.status = "NORMAL")

\* C22: for prices of any length n analyzeCSD returns trend, residuals,
\* ar1Series and varianceSeries of length n each, and residuals[i] is
\* prices[i] - trend[i] at every index.
C22_FullLengthSeries ==
  csdPc = "done" =>
     /\ Len(csdResult.trend) = Len(csdPrices)
     /\ Len(csdResult.residuals) = Len(csdPrices)
     /\ Len(csdResult.ar1Series) = Len(csdPrices)
     /\ Len(csdResult.varianceSeries) = Len(csdPrices)
     /\ \A i \in 1..Len(csdPrices) :
          LET t == csdResult.trend[i]
              r == csdResult.residuals[i]
          IN  IF IsNaN(t) THEN IsNaN(r)
              ELSE /\ IsNumber(r)
                   /\ r.n * t.d + t.n * r.d = csdPrices[i] * r.d * t.d

C22_Witness ==
  /\ csdPc = "done"
  /\ Len(csdPrices) = 2 /\ csdConfig.csdWindow = 3 /\ csdConfig.detrendBandwidth = 2
  /\ Len(csdResult.varianceSeries) = 2 /\ Len(csdResult.ar1Series) = 2
  /\ csdResult.residuals[1] # Zero

\* the smallest and the largest of a non-empty sequence of integers
MinOf(ints) == CHOOSE v \in {ints[k] : k \in 1..Len(ints)} : \A k \in 1..Len(ints) : v <= ints[k]
MaxOf(ints) == CHOOSE v \in {ints[k] : k \in 1..Len(ints)} : \A k \in 1..Len(ints) : v >= ints[k]

\* C23: with a positive bandwidth every trend[i] lies between the smallest and
\* the largest price; for constant prices the trend is the prices and the
\* residuals are all zero.
C23_TrendIsWeightedAverage ==
  (csdPc = "done" /\ csdConfig.detrendBandwidth > 0) =>
     /\ \A i \in 1..Len(csdPrices) :
          LET t == csdResult.trend[i]
          IN  /\ IsNumber(t)
              /\ MinOf(csdPrices) * t.d <= t.n
              /\ t.n <= MaxOf(csdPrices) * t.d
     /\ IsConstant(csdPrices) =>
          \A i \in 1..Len(csdPrices) :
             /\ csdResult.trend[i] = Num(csdPrices[i])
             /\ csdResult.residuals[i] = Zero

C23_Witness ==
  /\ csdPc = "done" /\ csdConfig.detrendBandwidth = 2
  /\ csdPrices = <<2, 2, 2>>
  /\ csdResult.trend = <<Num(2), Num(2), Num(2)>>
  /\ csdResult.residuals = <<Zero, Zero, Zero>>

----------------------------------------------------------------------------
(* Properties of the grid of LPPLModel.optimize                            *)

InGrid == pc = "grid"

\* C26: at every grid point dt = tc - t[i] is at least 6 for the observed
\* indices i, every pass of the loop body so far has reached the
\* least-squares solve, and lpplFunction takes its formula branch there.
C26_DtAtLeastSix ==
  /\ InGrid =>
       /\ MinDt(CurTc, n) >= 6
       /\ \A i \in {0, n \div 2, n - 1} :
            CurTc - i >= 6 /\ lpplBranch(i, CurTc) = "formula"
  /\ pc \in {"grid", "finish", "done"} => solveCalls = gridEvals

C26_Witness ==
  /\ InGrid /\ ti = 1 /\ MinDt(CurTc, n) = 6
  /\ gridEvals > 0 /\ solveCalls = gridEvals

\* C27: the fit held, and the fit returned, is the candidate of the pass
\* that first computed the largest viable R^2, also when later passes
\* computed that R^2 again; until a viable R^2 is computed no fit is held.
C27_FirstOfTiedMaxima ==
  /\ (pc \in {"grid", "finish"} /\ bestFit # Null) =>
        (Ordinal(bestFit) = firstMaxAt /\ bestFit.r2 = seenBestR2)
  /\ (pc \in {"grid", "finish"} /\ bestFit = Null) => firstMaxAt = 0
  /\ (Returned /\ HasFit(result)) =>
        (Ordinal(result) = firstMaxAt /\ result.r2 = seenBestR2)

C27_Witness ==
  /\ Returned /\ HasFit(result)
  /\ maxShared /\ Ordinal(result) = firstMaxAt /\ firstMaxAt > 1

\* C25 as stated: at every grid point round(tc - n + 1) lies strictly
\* between 5 and 200, and a returned fit has isBubble exactly when its
\* confidence exceeds 0.3, in the library and in the inline copy.
C25_TcDaysNeverRejects ==
  /\ InGrid => (TcDays(CurTc, n) > 5 /\ TcDays(CurTc, n) < 200)
  /\ (Returned /\ HasFit(result)) => (result.isBubble <=> result.confidence > 300)

\* C25 amended: in the library's step-10 grid tcDays lies between 6 and 196
\* and isBubble holds exactly when confidence > 0.3; the inline copy's
\* step-15 grid ends at tc = n + 200, the one grid point whose tcDays (201)
\* is not below 200, and there isBubble holds exactly when confidence > 0.3
\* and the fit's tc is not n + 200.
C25_TcDaysRejectsLastInlineOnly ==
  /\ InGrid =>
       /\ TcDays(CurTc, n) > 5
       /\ impl = "lib" => TcDays(CurTc, n) <= 196
       /\ impl # "lib" => (TcDays(CurTc, n) <= 201
                            /\ (TcDays(CurTc, n) >= 200 <=> CurTc = n + 200))
  /\ (Returned /\ HasFit(result)) =>
       (result.isBubble <=>
          (result.confidence > 300 /\ ~(impl # "lib" /\ result.tc = n + 200)))

C25_Witness ==
  /\ Returned /\ HasFit(result)
  /\ impl # "lib" /\ result.tc = n + 200 /\ result.tcDays = 201
  /\ result.confidence = 1000 /\ ~result.isBubble

----------------------------------------------------------------------------
(* Properties of the handlers' config                                      *)

ConfigBuilt == cfgPc = "done"
Parameters == {"detrendBandwidth", "csdWindow", "tauLookback"}

DefaultOf(p) ==
  CASE p = "detrendBandwidth" -> DefaultBandwidth
    [] p = "csdWindow" -> DefaultWindow
    [] p = "tauLookback" -> DefaultLookback

RECURSIVE DecimalValue(_)
\* the number a run of digits spells, last digit first
DecimalValue(digits) ==
  IF Len(digits) = 0 THEN 0
  ELSE 10 * DecimalValue(SubSeq(digits, 1, Len(digits) - 1))
         + DigitValue(digits[Len(digits)])

AllDigits(text) == Len(text) > 0 /\ \A k \in 1..Len(text) : IsDigit(text[k])

\* the whole text is an integer: an optional sign, then digits only
IsIntegerText(text) ==
  \/ AllDigits(text)
  \/ Len(text) > 1 /\ text[1] \in {"-", "+"} /\ AllDigits(Tail(text))

IntegerOf(text) ==
  IF text[1] = "-" THEN 0 - DecimalValue(Tail(text))
  ELSE IF text[1] = "+" THEN DecimalValue(Tail(text))
  ELSE DecimalValue(text)

\* text without its leading blanks
Unblanked(text) ==
  LET blanks == CHOOSE k \in 0..Len(text) :
                  /\ \A j \in 1..k : text[j] = " "
                  /\ (k < Len(text) => text[k + 1] # " ")
  IN  SubSeq(text, blanks + 1, Len(text))

\* lengths of the prefixes of text that are integers
IntegerPrefixes(text) == { k \in 1..Len(text) : IsIntegerText(SubSeq(text, 1, k)) }

HasLeadingInteger(text) == IntegerPrefixes(Unblanked(text)) # {}

LeadingInteger(text) ==
  LET t == Unblanked(text)
      k == CHOOSE k \in IntegerPrefixes(t) : \A j \in IntegerPrefixes(t) : j <= k
  IN  IntegerOf(SubSeq(t, 1, k))

----------------------------------------------------------------------------
(* Properties of the caching handlers                                      *)

Requests == DOMAIN hReqs

\* request r gets its response in this step
Responds(r) == hReqs[r].pc # "done" /\ hReqs'[r].pc = "done"

ServedFromCache(r) == hReqs[r].pc = "done" /\ hReqs[r].response.cached

\* the config of a query, field by field
RequestedConfig(query) ==
  [p \in Parameters |->
     IF HasLeadingInteger(query[p]) /\ LeadingInteger(query[p]) # 0
       THEN LeadingInteger(query[p]) ELSE DefaultOf(p)]

C29_CacheWrittenOnSuccessOnly ==
  /\ [][hCache' # hCache =>
          \E r \in Requests :
             /\ Responds(r)
             /\ hReqs'[r].response.status = 200 /\ ~hReqs'[r].response.cached
             /\ hCache'.data = hReqs'[r].response.data
             /\ hCache'.timestamp = hClock
             /\ hImpl = "analyze" => hCache'.key = stringify(hReqs'[r].config)]_vars
  /\ [][\A r \in Requests :
          (Responds(r) /\ hReqs'[r].response.status \in {400, 500}) =>
             hCache' = hCache]_vars
  /\ [](\A r \in Requests :
          (hReqs[r].pc = "done" /\ hReqs[r].response.status = 400) =>
             ~hReqs[r].response.analysed)

\* a request has ended with 400 and another with 500, after an earlier one
\* filled the cache, which is still as that one left it
C29_Witness ==
  /\ hImpl = "analyze"
  /\ hCache.data # Null /\ hCache.timestamp < hClock
  /\ \E r, q \in Requests :
       /\ hReqs[r].pc = "done" /\ hReqs[r].response.status = 400
       /\ hReqs[q].pc = "done" /\ hReqs[q].response.status = 500
       /\ hReqs[r].config # hCache.data.config

----------------------------------------------------------------------------
(* Properties of the FLRTrackerLive component                              *)

Latest == Len(uiLoads)

\* C30: when the latest call of loadData started, after a change of config,
\* while an earlier call was awaiting its response, then loading is on
\* until the latest call has its response, and once all calls have theirs
\* and the latest got a result the data shown are that result, for the
\* latest config.
C30_LatestLoadWins ==
  (Latest > 0 /\ uiLoads[Latest].overtakes # {}) =>
     /\ uiLoads[Latest].pc = "awaiting" => uiLoading
     /\ (Awaiting(uiLoads) = {} /\ uiLoads[Latest].pc = "ok") =>
           (uiData.load = Latest /\ uiData.config = uiConfig)

CsdReturned == csdPc = "done"

\* C3: a call of the CSD analysis with a zero or negative detrendBandwidth or
\* a negative window size fails with an error; it never returns a result.
C3_MisconfigurationRejected ==
  (CsdReturned /\ (csdConfig.detrendBandwidth <= 0 \/ csdConfig.csdWindow < 0)) =>
     csdResult.threw

====
